---- MODULE Spec2Model ----
(***************************************************************************)
(* Vertical Jump Calculator.                                               *)
(*                                                                         *)
(* src/app.js holds two applications, both called VerticalJumpApp: the     *)
(* manual one (lines 1-380: the user marks the takeoff and the peak frame, *)
(* the height is 1/2 g t^2) and the vision one (lines 382-872: a video is  *)
(* analysed by PoseAnalyzer, src/unnamed/part_000).                        *)
(*                                                                         *)
(* Units.  Times of the manual application are counted in frame steps of   *)
(* 1/30 s (FRAME_STEP).  Heights are counted in thousandths of a           *)
(* centimetre (MilliCm), so that 1/2 * 9.81 * (k/30)^2 * 100 cm is the     *)
(* integer 545 * k^2.  JavaScript numbers are modelled as exact rationals: *)
(* the rounding error of IEEE doubles is not modelled.                     *)
(***************************************************************************)
EXTENDS Integers, Sequences, FiniteSets, TLC

VARIABLES
    manualApp,      \* manual VerticalJumpApp: currentScreen, videoFile, videoDuration, takeoffTime, peakTime, isPlaying
    videoPlayer,    \* the #video-player element: currentTime
    btnCalculate,   \* the #btn-calculate element: disabled
    manualResult,   \* what the manual results screen displays
    heightIn,       \* a height handed to showResults (classifier input)
    visionApp,      \* vision VerticalJumpApp: currentScreen, userHeightCm, videoBlob
    visionResult,   \* what the vision results screen displays
    poseAnalyzer,   \* window.poseAnalyzer: detector, isModelLoaded
    runs            \* the analyzeJump calls made so far, each with its locals and its video element

manualVars == <<manualApp, videoPlayer, btnCalculate, manualResult>>
analysisVars == <<poseAnalyzer, runs>>
visionVars == <<heightIn, visionApp, visionResult, poseAnalyzer, runs>>
vars == <<manualApp, videoPlayer, btnCalculate, manualResult,
          heightIn, visionApp, visionResult, poseAnalyzer, runs>>

(***************************************************************************)
(* Bounds and program constants                                            *)
(***************************************************************************)
\* Longest video of the manual application, in frame steps of 1/30 s.
MaxTime == 16
\* Longest video picked in the manual user interface, in frame steps of 1/30 s.
MaxDuration == 4
\* Largest height handed to the classifiers, in tenths of a centimetre.
MaxHeightTenths == 1300

\* JavaScript null (takeoffTime, peakTime before a mark is set).
NULL == -1
\* this.GRAVITY = 9.81 m/s^2, in cm/s^2.
GRAVITY == 981
\* this.FRAME_STEP = 1 / 30: frame steps per second.
FramesPerSecond == 30
\* Thousandths of a centimetre per centimetre.
MilliCm == 1000

Times == 0..MaxTime
Marks == Times \cup {NULL}

\* JavaScript ToNumber on a mark: null converts to 0 in an arithmetic expression.
ToNumber(t) == IF t = NULL THEN 0 ELSE t

\* Math.round on a non-negative rational n/d: floor(n/d + 1/2).
MathRound(n, d) == (2 * n + d) \div (2 * d)

(***************************************************************************)
(* Jump classifier (both copies)                                           *)
(***************************************************************************)
\* A mutant of the manual copy: the "good" boundary is tested with <=.
getJumpCategoryOffByOne(heightCm) ==
    IF heightCm < 30 * MilliCm THEN "beginner"
    ELSE IF heightCm < 46 * MilliCm THEN "average"
    ELSE IF heightCm <= 56 * MilliCm THEN "good"
    ELSE IF heightCm < 66 * MilliCm THEN "great"
    ELSE IF heightCm < 76 * MilliCm THEN "excellent"
    ELSE "elite"

\* Manual application, app.js 310-348.  heightCm in MilliCm.
getJumpCategory(heightCm) ==
    IF heightCm < 30 * MilliCm THEN "beginner"
    ELSE IF heightCm < 46 * MilliCm THEN "average"
    ELSE IF heightCm < 56 * MilliCm THEN "good"
    ELSE IF heightCm < 66 * MilliCm THEN "great"
    ELSE IF heightCm < 76 * MilliCm THEN "excellent"
    ELSE "elite"

\* Vision application, app.js 804-842.  heightCm in MilliCm.
getJumpCategoryVision(heightCm) ==
    IF heightCm < 30 * MilliCm THEN "beginner"
    ELSE IF heightCm < 46 * MilliCm THEN "average"
    ELSE IF heightCm < 56 * MilliCm THEN "good"
    ELSE IF heightCm < 66 * MilliCm THEN "great"
    ELSE IF heightCm < 76 * MilliCm THEN "excellent"
    ELSE "elite"

(***************************************************************************)
(* Manual application                                                      *)
(***************************************************************************)
NoResult == [shown |-> FALSE, heightCm |-> 0, cm |-> 0, airTime |-> 0, category |-> "none"]

\* A mutant of calculateJumpHeight: the factor 1/2 is dropped.
calculateJumpHeightNoHalf(timeToApex) ==
    (GRAVITY * timeToApex * timeToApex * MilliCm) \div (FramesPerSecond * FramesPerSecond)

\* A mutant of calculateJumpHeight: the result is capped at 120 cm.
calculateJumpHeightCapped(timeToApex) ==
    LET h == (GRAVITY * timeToApex * timeToApex * MilliCm) \div (2 * FramesPerSecond * FramesPerSecond)
    IN  IF h > 120 * MilliCm THEN 120 * MilliCm ELSE h

\* app.js 275-281: heightMeters = 0.5 * GRAVITY * t^2, heightCm = heightMeters * 100.
\* timeToApex in frame steps, result in MilliCm (981 cm/s^2 * (k/30 s)^2 / 2).
calculateJumpHeight(timeToApex) ==
    (GRAVITY * timeToApex * timeToApex * MilliCm) \div (2 * FramesPerSecond * FramesPerSecond)

\* A mutant of CalcDisabled: a peak at the takeoff frame enables the button.
CalcDisabledInclusive(takeoffTime, peakTime) ==
    ~(takeoffTime # NULL /\ peakTime # NULL /\ peakTime >= takeoffTime)

\* app.js 265-271: the value updateCalculateButton gives btn.disabled.
CalcDisabled(takeoffTime, peakTime) ==
    ~(takeoffTime # NULL /\ peakTime # NULL /\ peakTime > takeoffTime)

\* app.js 292-308 (manual showResults): fills the results screen and shows it.
showResults(heightCm, airTime) ==
    /\ manualResult' = [shown |-> TRUE,
                        heightCm |-> heightCm,
                        cm |-> MathRound(heightCm, MilliCm),
                        airTime |-> airTime,
                        category |-> getJumpCategory(heightCm)]
    /\ manualApp' = [manualApp EXCEPT !.currentScreen = "results"]

\* app.js 283-288: no test of the marks precedes the computation.
calculateAndShowResults ==
    /\ manualApp.currentScreen = "selector"
    /\ LET airTime == ToNumber(manualApp.peakTime) - ToNumber(manualApp.takeoffTime)
           heightCm == calculateJumpHeight(airTime)
       IN  showResults(heightCm, airTime)
    /\ UNCHANGED <<videoPlayer, btnCalculate, visionVars>>

\* app.js 150-153: a click on #btn-calculate; a disabled button fires no click.
ClickCalculate ==
    /\ ~btnCalculate.disabled
    /\ calculateAndShowResults

\* app.js 53-55: #btn-start on the welcome screen.
ClickStart ==
    /\ manualApp.currentScreen = "welcome"
    /\ manualApp' = [manualApp EXCEPT !.currentScreen = "upload"]
    /\ UNCHANGED <<videoPlayer, btnCalculate, manualResult, visionVars>>

\* app.js 163-175: a video file of duration d is dropped or picked on the upload
\* screen; video.load() restarts the element at time 0.
handleVideoSelect(d) ==
    /\ manualApp.currentScreen = "upload"
    /\ manualApp' = [manualApp EXCEPT !.videoFile = TRUE,
                                      !.takeoffTime = NULL,
                                      !.peakTime = NULL,
                                      !.currentScreen = "selector"]
    /\ videoPlayer' = [currentTime |-> 0, duration |-> d, metadataPending |-> TRUE]
    /\ btnCalculate' = [disabled |-> CalcDisabled(NULL, NULL)]
    /\ UNCHANGED <<manualResult, visionVars>>

\* app.js 89-93: the element's loadedmetadata event.
OnLoadedMetadata ==
    /\ videoPlayer.metadataPending
    /\ videoPlayer' = [videoPlayer EXCEPT !.metadataPending = FALSE]
    /\ manualApp' = [manualApp EXCEPT !.videoDuration = videoPlayer.duration]
    /\ UNCHANGED <<btnCalculate, manualResult, visionVars>>

\* app.js 118-122: the scrubber is dragged to time t.
ScrubberInput(t) ==
    /\ manualApp.currentScreen = "selector"
    /\ t <= videoPlayer.duration
    /\ videoPlayer' = [videoPlayer EXCEPT !.currentTime = t]
    /\ UNCHANGED <<manualApp, btnCalculate, manualResult, visionVars>>

Max(a, b) == IF a >= b THEN a ELSE b
Min(a, b) == IF a <= b THEN a ELSE b

\* app.js 182-189, with the pause event of 107-110.
stepFrame(direction) ==
    /\ manualApp.currentScreen = "selector"
    /\ manualApp' = [manualApp EXCEPT !.isPlaying = FALSE]
    /\ LET newTime == videoPlayer.currentTime + direction
       IN  videoPlayer' = [videoPlayer EXCEPT
               !.currentTime = Min(Max(0, Min(newTime, manualApp.videoDuration)),
                                   videoPlayer.duration)]
    /\ UNCHANGED <<btnCalculate, manualResult, visionVars>>

\* app.js 191-197, with the play and pause events of 102-110.
togglePlayPause ==
    /\ manualApp.currentScreen = "selector"
    /\ manualApp' = [manualApp EXCEPT !.isPlaying = ~manualApp.isPlaying]
    /\ UNCHANGED <<videoPlayer, btnCalculate, manualResult, visionVars>>

\* Playback advances the element by one frame step; at the end of the video the
\* ended event (app.js 112-115) clears isPlaying.
Playback ==
    /\ manualApp.isPlaying
    /\ IF videoPlayer.currentTime < videoPlayer.duration
       THEN /\ videoPlayer' = [videoPlayer EXCEPT !.currentTime = @ + 1]
            /\ UNCHANGED manualApp
       ELSE /\ manualApp' = [manualApp EXCEPT !.isPlaying = FALSE]
            /\ UNCHANGED videoPlayer
    /\ UNCHANGED <<btnCalculate, manualResult, visionVars>>

\* app.js 201-216.
markTakeoff ==
    /\ manualApp.currentScreen = "selector"
    /\ manualApp' = [manualApp EXCEPT !.takeoffTime = videoPlayer.currentTime]
    /\ btnCalculate' = [disabled |-> CalcDisabled(videoPlayer.currentTime, manualApp.peakTime)]
    /\ UNCHANGED <<videoPlayer, manualResult, visionVars>>

\* app.js 218-233.
markPeak ==
    /\ manualApp.currentScreen = "selector"
    /\ manualApp' = [manualApp EXCEPT !.peakTime = videoPlayer.currentTime]
    /\ btnCalculate' = [disabled |-> CalcDisabled(manualApp.takeoffTime, videoPlayer.currentTime)]
    /\ UNCHANGED <<videoPlayer, manualResult, visionVars>>

\* app.js 352-374: #btn-try-again on the results screen.
reset ==
    /\ manualApp.currentScreen = "results"
    /\ manualApp' = [manualApp EXCEPT
           !.takeoffTime = NULL,
           !.peakTime = NULL,
           !.currentScreen = IF manualApp.videoFile THEN "selector" ELSE "upload"]
    /\ btnCalculate' = [disabled |-> CalcDisabled(NULL, NULL)]
    /\ videoPlayer' = IF manualApp.videoFile
                      THEN [videoPlayer EXCEPT !.currentTime = 0]
                      ELSE videoPlayer
    /\ UNCHANGED <<manualResult, visionVars>>

(***************************************************************************)
(* PoseAnalyzer: numeric helpers                                           *)
(*                                                                         *)
(* Image positions are counted in half pixels (the mean of two integer     *)
(* pixel rows is a half pixel), keypoint scores in hundredths, the         *)
(* confidence of a hip observation in two-hundredths (the mean of two      *)
(* scores), the time of a sample as its frame index i (time = i / 15 s).   *)
(* A JavaScript number that is not an integer of these units is the        *)
(* rational [n, d] with d > 0.                                             *)
(***************************************************************************)
Rat(n, d) == [n |-> n, d |-> d]
RatLess(a, b) == a.n * b.d < b.n * a.d
RatEq(a, b) == a.n * b.d = b.n * a.d
RatMul(a, b) == Rat(a.n * b.n, a.d * b.d)
RatSub(a, b) == Rat(a.n * b.d - b.n * a.d, a.d * b.d)

\* Math.round(x * 10) for x = a.n / a.d >= 0: the result in tenths.
RoundTenths(a) == (20 * a.n + a.d) \div (2 * a.d)

RECURSIVE SumY(_)
\* part_000 237: reduce((sum, p) => sum + p.y, 0).
SumY(ps) == IF ps = <<>> THEN 0 ELSE Head(ps).y + SumY(Tail(ps))

RECURSIVE MaxY(_)
\* part_000 240: Math.max(...map(p => p.y)), of a non-empty list.
MaxY(ps) == IF Len(ps) = 1 THEN Head(ps).y ELSE Max(Head(ps).y, MaxY(Tail(ps)))

RECURSIVE MinY(_)
\* part_000 245: Math.min(...map(p => p.y)), of a non-empty list.
MinY(ps) == IF Len(ps) = 1 THEN Head(ps).y ELSE Min(Head(ps).y, MinY(Tail(ps)))

RECURSIVE Insert(_, _)
Insert(x, sorted) ==
    IF sorted = <<>> THEN <<x>>
    ELSE IF x <= Head(sorted) THEN <<x>> \o sorted
    ELSE <<Head(sorted)>> \o Insert(x, Tail(sorted))

RECURSIVE SortAscending(_)
\* part_000 218: [...bodyHeights].sort((a, b) => a - b).
SortAscending(xs) == IF xs = <<>> THEN <<>> ELSE Insert(Head(xs), SortAscending(Tail(xs)))

(***************************************************************************)
(* PoseAnalyzer.calculateJumpHeight, part_000 200-270                      *)
(***************************************************************************)
\* const fps = 15 (part_000 52): samples per second.
fps == 15
\* Confidence filter 0.4 (part_000 206), in two-hundredths.
ConfidenceThreshold == 80
\* The least number of observations (part_000 201, 208).
MinPositions == 5
\* The least number of body height samples for the median (part_000 216).
MinBodyHeights == 3
\* The height above which the result is halved, in cm (part_000 259).
MaxPlausibleCm == 120
\* The height below which the jump is too small, in cm (part_000 265).
MinMeasurableCm == 5

Failure(code) == [kind |-> "error", error |-> code, tenths |-> 0]
Height(tenths) == [kind |-> "height", error |-> "none", tenths |-> tenths]

\* part_000 206.
confidentPositions(hipPositions) ==
    SelectSeq(hipPositions, LAMBDA p : p.confidence > ConfidenceThreshold)

\* A mutant of pixelScale: for an even count the lower of the two middle elements.
pixelScaleLowerMiddle(bodyHeights, userHeightCm, videoHeight) ==
    IF Len(bodyHeights) >= MinBodyHeights
    THEN LET sortedHeights == SortAscending(bodyHeights)
             medianBodyHeight == sortedHeights[(Len(sortedHeights) + 1) \div 2]
         IN  Rat(userHeightCm * 9, 5 * medianBodyHeight)
    ELSE Rat(userHeightCm * 10, videoHeight * 7)

\* A mutant of pixelScale: two samples are enough for the median.
pixelScaleTwoSamples(bodyHeights, userHeightCm, videoHeight) ==
    IF Len(bodyHeights) >= MinBodyHeights - 1
    THEN LET sortedHeights == SortAscending(bodyHeights)
             medianBodyHeight == sortedHeights[(Len(sortedHeights) \div 2) + 1]
         IN  Rat(userHeightCm * 9, 5 * medianBodyHeight)
    ELSE Rat(userHeightCm * 10, videoHeight * 7)

\* part_000 214-228: cm per pixel.  bodyHeights in half pixels, videoHeight in pixels.
\* median / 0.9 pixels is (m / 2) * 10 / 9 = 5 m / 9 for the half-pixel count m.
pixelScale(bodyHeights, userHeightCm, videoHeight) ==
    IF Len(bodyHeights) >= MinBodyHeights
    THEN LET sortedHeights == SortAscending(bodyHeights)
             medianBodyHeight == sortedHeights[(Len(sortedHeights) \div 2) + 1]
         IN  Rat(userHeightCm * 9, 5 * medianBodyHeight)
    ELSE Rat(userHeightCm * 10, videoHeight * 7)

\* A mutant of standingHipY: the sample at 1.0 s counts as standing.
standingHipYInclusive(confident) ==
    LET standingFrames == SelectSeq(confident, LAMBDA p : p.time <= fps)
    IN  IF Len(standingFrames) >= 2
        THEN Rat(SumY(standingFrames), 2 * Len(standingFrames))
        ELSE Rat(MaxY(confident), 2)

\* part_000 232-241: the standing baseline, in pixels.
standingHipY(confident) ==
    LET standingFrames == SelectSeq(confident, LAMBDA p : p.time < fps)
    IN  IF Len(standingFrames) >= 2
        THEN Rat(SumY(standingFrames), 2 * Len(standingFrames))
        ELSE Rat(MaxY(confident), 2)

\* A mutant of peakHipY: the lowest position of the hips on the picture.
peakHipYLowest(confident) == Rat(MaxY(confident), 2)

\* part_000 245: the peak, in pixels.
peakHipY(confident) == Rat(MinY(confident), 2)

\* part_000 247-251: displacementPixels * pixelScale, in cm.
rawJumpHeightCm(confident, bodyHeights, userHeightCm, videoHeight) ==
    RatMul(RatSub(standingHipY(confident), peakHipY(confident)),
           pixelScale(bodyHeights, userHeightCm, videoHeight))

\* A mutant of sanityAdjust: the halving is repeated until the height is at most 120.
sanityAdjustLoop(h) ==
    LET clamped == IF h.n < 0 THEN Rat(0, 1) ELSE h
        once == Rat(clamped.n, 2 * clamped.d)
    IN  IF RatLess(Rat(MaxPlausibleCm, 1), clamped)
        THEN IF RatLess(Rat(MaxPlausibleCm, 1), once) THEN Rat(once.n, 2 * once.d) ELSE once
        ELSE clamped

\* part_000 253-262: the negative clamp, then one halving above 120 cm.
sanityAdjust(h) ==
    LET clamped == IF h.n < 0 THEN Rat(0, 1) ELSE h
    IN  IF RatLess(Rat(MaxPlausibleCm, 1), clamped)
        THEN Rat(clamped.n, 2 * clamped.d)
        ELSE clamped

\* A mutant of finishHeight: a height of exactly 5 cm is rejected too.
finishHeightInclusive(h) ==
    IF ~RatLess(Rat(MinMeasurableCm, 1), h)
    THEN Failure("JUMP_TOO_SMALL")
    ELSE Height(RoundTenths(h))

\* part_000 264-269: the minimum threshold, then Math.round(h * 10) / 10.
finishHeight(h) ==
    IF RatLess(h, Rat(MinMeasurableCm, 1))
    THEN Failure("JUMP_TOO_SMALL")
    ELSE Height(RoundTenths(h))

\* A mutant of PoseAnalyzer_calculateJumpHeight: the confidence gate comes first.
PoseAnalyzer_calculateJumpHeightSwapped(hipPositions, bodyHeights, userHeightCm, videoHeight) ==
    LET confident == confidentPositions(hipPositions)
    IN  IF Len(confident) < MinPositions
        THEN Failure("LOW_CONFIDENCE")
        ELSE IF Len(hipPositions) < MinPositions
        THEN Failure("INSUFFICIENT_POSE_DATA")
        ELSE finishHeight(sanityAdjust(
                 rawJumpHeightCm(confident, bodyHeights, userHeightCm, videoHeight)))

\* A mutant of PoseAnalyzer_calculateJumpHeight: the second gate is missing.
PoseAnalyzer_calculateJumpHeightOneGate(hipPositions, bodyHeights, userHeightCm, videoHeight) ==
    IF Len(hipPositions) < MinPositions
    THEN Failure("INSUFFICIENT_POSE_DATA")
    ELSE LET confident == confidentPositions(hipPositions)
         IN  IF Len(confident) = 0
             THEN Failure("LOW_CONFIDENCE")
             ELSE finishHeight(sanityAdjust(
                      rawJumpHeightCm(confident, bodyHeights, userHeightCm, videoHeight)))

\* part_000 200-270.  The result is the height in tenths of a centimetre or the
\* error thrown (the specification's name of the message).
PoseAnalyzer_calculateJumpHeight(hipPositions, bodyHeights, userHeightCm, videoHeight) ==
    IF Len(hipPositions) < MinPositions
    THEN Failure("INSUFFICIENT_POSE_DATA")
    ELSE LET confident == confidentPositions(hipPositions)
         IN  IF Len(confident) < MinPositions
             THEN Failure("LOW_CONFIDENCE")
             ELSE finishHeight(sanityAdjust(
                      rawJumpHeightCm(confident, bodyHeights, userHeightCm, videoHeight)))

(***************************************************************************)
(* PoseAnalyzer.extractPoseData and getAverageY, part_000 107-195          *)
(*                                                                         *)
(* A keypoint is [present, y, score]: found by name in the detector's      *)
(* output or not, its row in pixels, its score in hundredths.              *)
(***************************************************************************)
\* const minConfidence = 0.3 (part_000 123), in hundredths.
minConfidence == 30

Keypoint(y, score) == [present |-> TRUE, y |-> y, score |-> score]
Missing == [present |-> FALSE, y |-> 0, score |-> 0]

NoPoseData == [valid |-> FALSE, hipY |-> 0, confidence |-> 0, bodyHeight |-> 0]
NoY == [valid |-> FALSE, y |-> 0]

\* part_000 183-195: the mean row of two keypoints, in half pixels, or null.
getAverageY(kp1, kp2) ==
    LET valid1 == kp1.present /\ kp1.score > minConfidence
        valid2 == kp2.present /\ kp2.score > minConfidence
    IN  IF valid1 /\ valid2 THEN [valid |-> TRUE, y |-> kp1.y + kp2.y]
        ELSE IF valid1 THEN [valid |-> TRUE, y |-> 2 * kp1.y]
        ELSE IF valid2 THEN [valid |-> TRUE, y |-> 2 * kp2.y]
        ELSE NoY

Abs(x) == IF x < 0 THEN -x ELSE x

\* part_000 107-157: hipY and bodyHeight in half pixels, confidence in
\* two-hundredths; null (valid = FALSE) when a hip keypoint is missing or no hip
\* has a score above 0.3.
extractPoseData(keypoints) ==
    LET leftHip == keypoints.left_hip
        rightHip == keypoints.right_hip
        nose == keypoints.nose
        ankleY == getAverageY(keypoints.left_ankle, keypoints.right_ankle)
        noseY == IF nose.present /\ nose.score > minConfidence
                 THEN [valid |-> TRUE, y |-> 2 * nose.y] ELSE NoY
        bodyHeight == IF ankleY.valid /\ noseY.valid THEN Abs(ankleY.y - noseY.y) ELSE 0
    IN  IF ~leftHip.present \/ ~rightHip.present THEN NoPoseData
        ELSE IF leftHip.score > minConfidence /\ rightHip.score > minConfidence
        THEN [valid |-> TRUE, hipY |-> leftHip.y + rightHip.y,
              confidence |-> leftHip.score + rightHip.score, bodyHeight |-> bodyHeight]
        ELSE IF leftHip.score > minConfidence
        THEN [valid |-> TRUE, hipY |-> 2 * leftHip.y,
              confidence |-> 2 * leftHip.score, bodyHeight |-> bodyHeight]
        ELSE IF rightHip.score > minConfidence
        THEN [valid |-> TRUE, hipY |-> 2 * rightHip.y,
              confidence |-> 2 * rightHip.score, bodyHeight |-> bodyHeight]
        ELSE NoPoseData

(***************************************************************************)
(* One analyzeJump call: its locals and the video element it was given     *)
(*                                                                         *)
(* pc is the await the call is suspended at: "load" (createDetector),      *)
(* "seek" (the promise of seekVideo), "delay" (the 50 ms timer), "infer"   *)
(* (estimatePoses); "calc" is the return statement, "done" the settled     *)
(* promise.  The onSeeked listener and the 500 ms timer of a seek are live *)
(* exactly while pc = "seek": the timer of a seek that 'seeked' resolved   *)
(* removes a removed listener and resolves a settled promise, so its       *)
(* firing changes nothing and is no step of the model.                     *)
(* seekedPending holds the seeks (sample indices) whose 'seeked' event may *)
(* still be delivered.  detections is the list of what estimatePoses gave, *)
(* replay the run whose detections this run is given again (0: none).      *)
(***************************************************************************)
NoOutcome == [kind |-> "pending", error |-> "none", tenths |-> 0]

\* What one estimatePoses call gives: no pose, a pose with its keypoints, or a throw.
NoKeypoints == [left_hip |-> Missing, right_hip |-> Missing, left_ankle |-> Missing,
                right_ankle |-> Missing, nose |-> Missing]
NoPose == [found |-> FALSE, thrown |-> FALSE, keypoints |-> NoKeypoints]
Thrown == [found |-> FALSE, thrown |-> TRUE, keypoints |-> NoKeypoints]
Pose(keypoints) == [found |-> TRUE, thrown |-> FALSE, keypoints |-> keypoints]

\* part_000 36-57: the locals of a call of analyzeJump(video, userHeightCm, onProgress)
\* at its first line.  duration is counted in thirtieths of a second, so that
\* Math.floor(duration * fps) is duration * 15 / 30 rounded down.
NewRun(duration, videoHeight, userHeightCm, onProgress) ==
    [pc |-> "load",
     caller |-> "none",
     createDetectorCalled |-> FALSE,
     video |-> [element |-> 1, duration |-> duration, videoHeight |-> videoHeight,
                currentTime |-> 0],
     userHeightCm |-> userHeightCm,
     onProgress |-> onProgress,
     i |-> 0,
     totalFrames |-> (duration * fps) \div 30,
     hipPositions |-> <<>>,
     bodyHeights |-> <<>>,
     progress |-> <<>>,
     seekedPending |-> {},
     detections |-> <<>>,
     replay |-> 0,
     outcome |-> NoOutcome]

\* part_000 101: return this.calculateJumpHeight(hipPositions, bodyHeights,
\* userHeightCm, videoHeight); a throw rejects the promise of analyzeJump.
Finish(run) ==
    [run EXCEPT !.pc = "done",
                !.outcome = PoseAnalyzer_calculateJumpHeight(
                                run.hipPositions, run.bodyHeights,
                                run.userHeightCm, run.video.videoHeight)]

\* A mutant of Reject: a failing detector ends the loop and the height is
\* computed from the frames gathered so far.
RejectBestGuess(run) == Finish(run)

\* A rejected createDetector or estimatePoses rejects the promise of analyzeJump.
Reject(run) ==
    [run EXCEPT !.pc = "done", !.outcome = Failure("DETECTOR_UNAVAILABLE")]

\* A mutant of seekVideo: the seek targets the sample after the current one.
seekVideoNext(run, kept) ==
    [run EXCEPT !.pc = "seek",
                !.video.currentTime = run.i + 1,
                !.seekedPending = kept \cup {run.i}]

\* part_000 162-177 with 61-64: seekVideo(video, i * frameInterval) up to its
\* await.  kept: the earlier 'seeked' events that are queued already and are
\* delivered although a new seek starts; the other earlier seeks are aborted.
seekVideo(run, kept) ==
    [run EXCEPT !.pc = "seek",
                !.video.currentTime = run.i,
                !.seekedPending = kept \cup {run.i}]

\* At most one earlier 'seeked' event is queued when a seek starts.
KeptChoices(run) == {{}} \cup {{k} : k \in run.seekedPending}

\* part_000 60: the loop test, then the next seek or the return statement.
enterLoop(run, kept) ==
    IF run.i < run.totalFrames THEN seekVideo(run, kept) ELSE Finish(run)

\* part_000 77-92: the observation and the body height sample of a frame.
collectPose(run, detection) ==
    LET poseData == extractPoseData(detection.keypoints)
    IN  IF detection.found /\ poseData.valid
        THEN [run EXCEPT
                 !.hipPositions = Append(@, [time |-> run.i, y |-> poseData.hipY,
                                             confidence |-> poseData.confidence]),
                 !.bodyHeights = IF poseData.bodyHeight > 0
                                 THEN Append(@, poseData.bodyHeight) ELSE @]
        ELSE run

\* A mutant of progressPercent: the frame is counted before it is reported.
progressPercentNext(i, totalFrames) == MathRound(100 * (i + 1), totalFrames)

\* part_000 96: Math.round((i / totalFrames) * 100).
progressPercent(i, totalFrames) == MathRound(100 * i, totalFrames)

\* part_000 94-97 with app.js 770-772: the callback receives the percentage.
reportProgress(run) ==
    IF run.onProgress
    THEN [run EXCEPT !.progress = Append(@, progressPercent(run.i, run.totalFrames))]
    ELSE run

\* A mutant of processFrame: with a callback the frame is reported and skipped.
processFrameReportOnly(run, detection) ==
    IF run.onProgress
    THEN [reportProgress(run) EXCEPT !.i = @ + 1, !.detections = Append(@, detection)]
    ELSE [collectPose(run, detection) EXCEPT !.i = @ + 1, !.detections = Append(@, detection)]

\* part_000 77-98: the rest of one loop iteration once estimatePoses has resolved.
processFrame(run, detection) ==
    [reportProgress(collectPose(run, detection)) EXCEPT
        !.i = @ + 1, !.detections = Append(@, detection)]

\* part_000 36-38 with 15-27: analyzeJump up to its first await that suspends.
\* With the model loaded loadModel returns at once and the loop is entered;
\* without, createDetector is called.
Called(run, isModelLoaded) ==
    IF isModelLoaded THEN enterLoop(run, {})
    ELSE [run EXCEPT !.createDetectorCalled = TRUE]

UpdateRun(r, run) == runs' = [runs EXCEPT ![r] = run]

\* app.js 417-428 (showScreen), on the application object.
showScreen(app, screenName) == [app EXCEPT !.currentScreen = screenName]

\* app.js 846-849 (showError), on the application object.
showError(app, message) == [showScreen(app, "error") EXCEPT !.errorMessage = message]

NoVisionResult == [shown |-> FALSE, cm |-> 0, category |-> "none"]

\* app.js 787-802 (vision showResults).  heightCm in MilliCm.
showResultsVision(heightCm) ==
    /\ visionResult' = [shown |-> TRUE,
                        cm |-> MathRound(heightCm, MilliCm),
                        category |-> getJumpCategoryVision(heightCm)]
    /\ visionApp' = showScreen(visionApp, "results")

\* app.js 769-781: analyzeVideo resumes in the microtask in which the promise of
\* its analyzeJump call settles: the height is shown, or the message of the
\* error.  A call that analyzeVideo did not make has nothing to resume.
analyzeVideoResumes(run) ==
    IF run.pc = "done" /\ run.caller = "analyzeVideo"
    THEN IF run.outcome.kind = "height"
         THEN showResultsVision(run.outcome.tenths * (MilliCm \div 10))
         ELSE /\ visionApp' = showError(visionApp, run.outcome.error)
              /\ UNCHANGED visionResult
    ELSE UNCHANGED <<visionApp, visionResult>>

\* A step of run r that may settle its promise.
Settle(r, run) == UpdateRun(r, run) /\ analyzeVideoResumes(run)

\* part_000 25-26: createDetector resolves for run r; the loop is entered.
createDetectorResolves(r) ==
    /\ r \in 1..Len(runs)
    /\ runs[r].pc = "load"
    /\ poseAnalyzer' = [poseAnalyzer EXCEPT !.detector = r, !.isModelLoaded = TRUE]
    /\ Settle(r, enterLoop(runs[r], {}))
    /\ UNCHANGED <<manualVars, heightIn>>

\* part_000 25: createDetector rejects for run r.
createDetectorRejects(r) ==
    /\ r \in 1..Len(runs)
    /\ runs[r].pc = "load"
    /\ Settle(r, Reject(runs[r]))
    /\ UNCHANGED <<manualVars, heightIn, poseAnalyzer>>

\* part_000 164-167: the 'seeked' event of seek k of run r's video is delivered.
\* The listener of the seek being awaited, if any, resolves its promise; the 50 ms
\* delay (part_000 67) starts.
onSeeked(r, k) ==
    /\ r \in 1..Len(runs)
    /\ k \in runs[r].seekedPending
    /\ UpdateRun(r, [runs[r] EXCEPT
           !.seekedPending = @ \ {k},
           !.pc = IF @ = "seek" THEN "delay" ELSE @])
    /\ UNCHANGED <<manualVars, heightIn, visionApp, visionResult, poseAnalyzer>>

\* A mutant of seekTimeout: the fallback removes the listener and resolves nothing.
seekTimeoutNoResolve(r) ==
    /\ r \in 1..Len(runs)
    /\ runs[r].pc = "seek"
    /\ UpdateRun(r, runs[r])
    /\ UNCHANGED <<manualVars, heightIn, visionApp, visionResult, poseAnalyzer>>

\* part_000 173-176: the 500 ms fallback of the seek being awaited fires.
seekTimeout(r) ==
    /\ r \in 1..Len(runs)
    /\ runs[r].pc = "seek"
    /\ UpdateRun(r, [runs[r] EXCEPT !.pc = "delay"])
    /\ UNCHANGED <<manualVars, heightIn, visionApp, visionResult, poseAnalyzer>>

\* part_000 67-75: the 50 ms delay is over; the frame is drawn and estimatePoses
\* is called on the shared detector.
delayElapsed(r) ==
    /\ r \in 1..Len(runs)
    /\ runs[r].pc = "delay"
    /\ UpdateRun(r, [runs[r] EXCEPT !.pc = "infer"])
    /\ UNCHANGED <<manualVars, heightIn, visionApp, visionResult, poseAnalyzer>>

\* What estimatePoses may give run r for its next frame: anything, or what the
\* replayed run was given for that frame.
MayDetect(r, detection) ==
    IF runs[r].replay = 0
    THEN TRUE
    ELSE /\ runs[r].i < Len(runs[runs[r].replay].detections)
         /\ detection = runs[runs[r].replay].detections[runs[r].i + 1]

\* part_000 73-98: estimatePoses resolves with a detection; the iteration ends and
\* the next one starts, or analyzeJump returns.
estimatePosesResolves(r, detection) ==
    /\ r \in 1..Len(runs)
    /\ runs[r].pc = "infer"
    /\ MayDetect(r, detection)
    /\ \E kept \in KeptChoices(runs[r]) :
          Settle(r, enterLoop(processFrame(runs[r], detection), kept))
    /\ UNCHANGED <<manualVars, heightIn, poseAnalyzer>>

\* part_000 73: estimatePoses rejects.
estimatePosesRejects(r) ==
    /\ r \in 1..Len(runs)
    /\ runs[r].pc = "infer"
    /\ MayDetect(r, Thrown)
    /\ Settle(r, Reject([runs[r] EXCEPT !.detections = Append(@, Thrown)]))
    /\ UNCHANGED <<manualVars, heightIn, poseAnalyzer>>

\* part_000 101, as a step of its own: calculateJumpHeight called on the data of
\* run r.
calculateJumpHeightCall(r) ==
    /\ r \in 1..Len(runs)
    /\ runs[r].pc = "calc"
    /\ Settle(r, Finish(runs[r]))
    /\ UNCHANGED <<manualVars, heightIn, poseAnalyzer>>

(***************************************************************************)
(* Vision application: handlers                                            *)
(*                                                                         *)
(* visionApp holds the fields of the application object and what the       *)
(* browser holds for it: countdown (the interval of startCountdown is      *)
(* running), startHidden (#btn-start-recording is hidden), fileDialog (the *)
(* file picker of #video-upload is open), cameraRequests and previewPlays  *)
(* (calls of startRecordingFlow suspended at getUserMedia and at           *)
(* preview.play()), stopEvents (queued 'stop' events of the recorder),     *)
(* autoStop (armed 5 s timers of startRecording).  A button is clicked on  *)
(* the screen it belongs to, and not while the file picker is open.        *)
(***************************************************************************)
\* The most analyses started, and the most suspended camera requests.
MaxRuns == 2
MaxCameraRequests == 1
\* The most samples of a video given to the application.
MaxAppFrames == 1

\* The messages of showError that no analysis produced.
CameraMessage == "CAMERA_UNAVAILABLE"
RecordingMessage == "RECORDING_FAILED"
FileTypeMessage == "NOT_A_VIDEO"
GenericMessage == "ANALYSIS_FAILED"

\* What the height fields hold when Continue is clicked.
HeightEntries ==
    { [unit |-> "cm", cm |-> 180, ft |-> 0, inches |-> 0],
      [unit |-> "cm", cm |-> 99, ft |-> 0, inches |-> 0],
      [unit |-> "imperial", cm |-> 0, ft |-> 5, inches |-> 11],
      [unit |-> "imperial", cm |-> 0, ft |-> 9, inches |-> 0] }

\* app.js 499-514.
validateHeightInput(entry) ==
    IF entry.unit = "cm"
    THEN entry.cm >= 100 /\ entry.cm <= 250
    ELSE entry.ft >= 3 /\ entry.ft <= 8 /\ entry.inches >= 0 /\ entry.inches <= 11

\* app.js 516-526: Math.round((ft * 12 + inches) * 2.54) for imperial entries.
getHeightInCm(entry) ==
    IF entry.unit = "cm" THEN entry.cm
    ELSE MathRound((entry.ft * 12 + entry.inches) * 254, 100)

\* A click reaches the button of the given screen.
Clickable(screenName) ==
    visionApp.currentScreen = screenName /\ ~visionApp.fileDialog

\* Analyses started or about to start: the bound on them is applied where the
\* user starts one.
Started ==
    Len(runs) + visionApp.stopEvents
        + (IF visionApp.countdown \/ visionApp.mediaRecorder = "recording" THEN 1 ELSE 0)

\* app.js 528-533.
handleContinue(entry) ==
    /\ Clickable("welcome")
    /\ visionApp' = IF validateHeightInput(entry)
                    THEN showScreen([visionApp EXCEPT !.userHeightCm = getHeightInCm(entry)],
                                    "instructions")
                    ELSE visionApp
    /\ UNCHANGED <<manualVars, heightIn, visionResult, poseAnalyzer, runs>>

\* app.js 537-543: startRecordingFlow up to its await of getUserMedia.
startRecordingFlow ==
    /\ Clickable("instructions")
    /\ visionApp.cameraRequests + visionApp.previewPlays < MaxCameraRequests
    /\ visionApp' = [showScreen(visionApp, "recording") EXCEPT !.cameraRequests = @ + 1]
    /\ UNCHANGED <<manualVars, heightIn, visionResult, poseAnalyzer, runs>>

\* app.js 543-553: getUserMedia resolves; the preview is started.
getUserMediaResolves ==
    /\ visionApp.cameraRequests > 0
    /\ visionApp' = [visionApp EXCEPT !.cameraRequests = @ - 1, !.mediaStream = TRUE,
                                      !.previewPlays = @ + 1]
    /\ UNCHANGED <<manualVars, heightIn, visionResult, poseAnalyzer, runs>>

\* app.js 543 and 559-562: getUserMedia rejects.
getUserMediaRejects ==
    /\ visionApp.cameraRequests > 0
    /\ visionApp' = showError([visionApp EXCEPT !.cameraRequests = @ - 1], CameraMessage)
    /\ UNCHANGED <<manualVars, heightIn, visionResult, poseAnalyzer, runs>>

\* app.js 553-557: preview.play() resolves; the recording button is shown.
previewPlayResolves ==
    /\ visionApp.previewPlays > 0
    /\ visionApp' = [visionApp EXCEPT !.previewPlays = @ - 1, !.startHidden = FALSE]
    /\ UNCHANGED <<manualVars, heightIn, visionResult, poseAnalyzer, runs>>

\* app.js 553 and 559-562: preview.play() rejects.
previewPlayRejects ==
    /\ visionApp.previewPlays > 0
    /\ visionApp' = showError([visionApp EXCEPT !.previewPlays = @ - 1], CameraMessage)
    /\ UNCHANGED <<manualVars, heightIn, visionResult, poseAnalyzer, runs>>

\* app.js 670-683, on the application object: an active recorder is stopped and
\* its 'stop' event queued.
stopRecording(app) ==
    IF app.mediaRecorder = "recording"
    THEN [app EXCEPT !.mediaRecorder = "inactive", !.stopEvents = @ + 1]
    ELSE app

\* app.js 713-718, on the application object.
stopCameraStream(app) == [app EXCEPT !.mediaStream = FALSE]

\* app.js 567-579 with 581-589: a click on #btn-start-recording starts the
\* countdown, or stops the recording.
toggleRecording ==
    /\ Clickable("recording")
    /\ ~visionApp.startHidden
    /\ IF visionApp.mediaRecorder \in {"null", "inactive"}
       THEN /\ Started < MaxRuns
            /\ visionApp' = [visionApp EXCEPT !.countdown = TRUE, !.startHidden = TRUE]
       ELSE visionApp' = stopRecording(visionApp)
    /\ UNCHANGED <<manualVars, heightIn, visionResult, poseAnalyzer, runs>>

\* app.js 591-601 with 573 and 605-656: the countdown reaches zero and
\* startRecording runs; new MediaRecorder throws without a stream.
countdownEnds ==
    /\ visionApp.countdown
    /\ visionApp' =
          IF visionApp.mediaStream
          THEN [visionApp EXCEPT !.countdown = FALSE, !.mediaRecorder = "recording",
                                 !.autoStop = @ + 1]
          ELSE showError([visionApp EXCEPT !.countdown = FALSE], RecordingMessage)
    /\ UNCHANGED <<manualVars, heightIn, visionResult, poseAnalyzer, runs>>

\* app.js 645-650: the 5 s timer of a recording fires.
autoStopFires ==
    /\ visionApp.autoStop > 0
    /\ visionApp' = stopRecording([visionApp EXCEPT !.autoStop = @ - 1])
    /\ UNCHANGED <<manualVars, heightIn, visionResult, poseAnalyzer, runs>>

\* app.js 697-711.
cancelRecording ==
    /\ Clickable("recording")
    /\ visionApp' = showScreen(stopCameraStream(stopRecording(
                        [visionApp EXCEPT !.countdown = FALSE])), "instructions")
    /\ UNCHANGED <<manualVars, heightIn, visionResult, poseAnalyzer, runs>>

\* app.js 749-767: analyzeVideo up to its await of the metadata, on the
\* application object app.  The call has its own video element;
\* URL.createObjectURL throws without a blob.
analyzeVideo(app) ==
    IF app.videoBlob
    THEN /\ visionApp' = showScreen(app, "analyzing")
         /\ runs' = Append(runs,
               [NewRun(0, 0, app.userHeightCm, TRUE) EXCEPT
                   !.pc = "metadata", !.caller = "analyzeVideo",
                   !.video.element = Len(runs) + 1])
    ELSE /\ visionApp' = showError(showScreen(app, "analyzing"), GenericMessage)
         /\ UNCHANGED runs

\* app.js 636-638 with 685-695: the 'stop' event of the recorder is delivered;
\* handleRecordingComplete makes the blob and calls analyzeVideo.
handleRecordingComplete ==
    /\ visionApp.stopEvents > 0
    /\ analyzeVideo(stopCameraStream(
           [visionApp EXCEPT !.stopEvents = @ - 1, !.videoBlob = TRUE]))
    /\ UNCHANGED <<manualVars, heightIn, visionResult, poseAnalyzer>>

\* app.js 722-724: #btn-upload or #btn-reselect opens the file picker.
handleUploadClick ==
    /\ Clickable("instructions") \/ Clickable("upload")
    /\ visionApp' = [visionApp EXCEPT !.fileDialog = TRUE]
    /\ UNCHANGED <<manualVars, heightIn, visionResult, poseAnalyzer, runs>>

\* app.js 726-745 for a picked file of the given kind; "none": the picker is
\* dismissed.
handleFileSelect(file) ==
    /\ visionApp.fileDialog
    /\ visionApp' =
          LET app == [visionApp EXCEPT !.fileDialog = FALSE]
          IN  IF file = "none" THEN app
              ELSE IF file # "video" THEN showError(app, FileTypeMessage)
              ELSE showScreen([app EXCEPT !.videoBlob = TRUE], "upload")
    /\ UNCHANGED <<manualVars, heightIn, visionResult, poseAnalyzer, runs>>

\* app.js 460: #btn-analyze-upload calls analyzeVideo.
clickAnalyzeUpload ==
    /\ Clickable("upload")
    /\ Started < MaxRuns
    /\ analyzeVideo(visionApp)
    /\ UNCHANGED <<manualVars, heightIn, visionResult, poseAnalyzer>>

\* app.js 761-772: the metadata of the video of call r is loaded and analyzeJump
\* is called with the user's height and the progress callback.
videoLoadedMetadata(r, duration) ==
    /\ r \in 1..Len(runs)
    /\ runs[r].pc = "metadata"
    /\ Settle(r, Called([NewRun(duration, 1000, visionApp.userHeightCm, TRUE) EXCEPT
                            !.caller = "analyzeVideo",
                            !.video.element = runs[r].video.element],
                        poseAnalyzer.isModelLoaded))
    /\ UNCHANGED <<manualVars, heightIn, poseAnalyzer>>

\* app.js 761-765 and 776-781: the video of call r fails to load; the error
\* event has no message.
videoLoadFails(r) ==
    /\ r \in 1..Len(runs)
    /\ runs[r].pc = "metadata"
    /\ Settle(r, [runs[r] EXCEPT !.pc = "done", !.outcome = Failure(GenericMessage)])
    /\ UNCHANGED <<manualVars, heightIn, poseAnalyzer>>

\* app.js 853-866.
resetApp ==
    /\ Clickable("results") \/ Clickable("error")
    /\ visionApp' = showScreen([stopCameraStream(visionApp) EXCEPT
                                   !.videoBlob = FALSE, !.startHidden = FALSE],
                               "instructions")
    /\ UNCHANGED <<manualVars, heightIn, visionResult, poseAnalyzer, runs>>

(***************************************************************************)
(* Initial states                                                          *)
(***************************************************************************)
\* app.js 13-19: the manual application after construction.
ManualAppInit ==
    /\ manualApp = [currentScreen |-> "welcome", videoFile |-> FALSE, videoDuration |-> 0,
                    takeoffTime |-> NULL, peakTime |-> NULL, isPlaying |-> FALSE]
    /\ videoPlayer = [currentTime |-> 0, duration |-> 0, metadataPending |-> FALSE]
    /\ btnCalculate = [disabled |-> TRUE]
    /\ manualResult = NoResult

\* app.js 388-397: the vision application after construction.
VisionAppInit ==
    /\ visionApp = [currentScreen |-> "welcome", userHeightCm |-> NULL,
                    videoBlob |-> FALSE, mediaStream |-> FALSE, mediaRecorder |-> "null",
                    countdown |-> FALSE, startHidden |-> TRUE, fileDialog |-> FALSE,
                    cameraRequests |-> 0, previewPlays |-> 0, stopEvents |-> 0,
                    autoStop |-> 0, errorMessage |-> "none"]
    /\ visionResult = NoVisionResult

\* part_000 7-10 and 274: window.poseAnalyzer after construction (detector 0 is
\* null, detector r the one created for run r); no analysis yet.
PoseAnalyzerInit ==
    /\ poseAnalyzer = [detector |-> 0, isModelLoaded |-> FALSE]
    /\ runs = <<>>

(***************************************************************************)
(* SpecManual: the manual application driven through its user interface.   *)
(***************************************************************************)
InitManual ==
    /\ ManualAppInit
    /\ VisionAppInit
    /\ PoseAnalyzerInit
    /\ heightIn = 0

NextManual ==
    \/ ClickStart
    \/ \E d \in 1..MaxDuration : handleVideoSelect(d)
    \/ OnLoadedMetadata
    \/ \E t \in 0..MaxDuration : ScrubberInput(t)
    \/ stepFrame(1)
    \/ stepFrame(-1)
    \/ togglePlayPause
    \/ Playback
    \/ markTakeoff
    \/ markPeak
    \/ ClickCalculate
    \/ reset

SpecManual == InitManual /\ [][NextManual]_vars

(***************************************************************************)
(* SpecManualEngine: the manual estimator as a function of the two marks.  *)
(* calculateAndShowResults is a method of window.app and is called here    *)
(* with every pair of marks, whatever #btn-calculate says.                 *)
(***************************************************************************)
InitManualEngine ==
    /\ \E tk \in Marks, pk \in Marks :
          /\ manualApp = [currentScreen |-> "selector", videoFile |-> TRUE,
                          videoDuration |-> MaxTime, takeoffTime |-> tk, peakTime |-> pk,
                          isPlaying |-> FALSE]
          /\ btnCalculate = [disabled |-> CalcDisabled(tk, pk)]
    /\ videoPlayer = [currentTime |-> 0, duration |-> MaxTime, metadataPending |-> FALSE]
    /\ manualResult = NoResult
    /\ VisionAppInit
    /\ PoseAnalyzerInit
    /\ heightIn = 0

NextManualEngine ==
    \/ calculateAndShowResults
    \/ reset

SpecManualEngine == InitManualEngine /\ [][NextManualEngine]_vars

(***************************************************************************)
(* SpecClassify: both copies of getJumpCategory applied to one height.     *)
(***************************************************************************)
\* The heights handed to the classifiers: every tenth of a centimetre up to the
\* bound, and the specification's 1000 cm.
ClassifyHeights == {k * (MilliCm \div 10) : k \in 0..MaxHeightTenths} \cup {1000 * MilliCm}

InitClassify ==
    /\ ManualAppInit
    /\ VisionAppInit
    /\ PoseAnalyzerInit
    /\ heightIn \in ClassifyHeights

\* The manual application shows heightIn.
ShowManual ==
    /\ ~manualResult.shown
    /\ showResults(heightIn, 0)
    /\ UNCHANGED <<videoPlayer, btnCalculate, visionVars>>

\* The vision application shows heightIn.
ShowVision ==
    /\ ~visionResult.shown
    /\ showResultsVision(heightIn)
    /\ UNCHANGED <<manualVars, heightIn, analysisVars>>

NextClassify ==
    \/ ShowManual
    \/ ShowVision

SpecClassify == InitClassify /\ [][NextClassify]_vars

(***************************************************************************)
(* SpecEstimator: PoseAnalyzer.calculateJumpHeight as a function of the    *)
(* data analyzeJump collected.  The hip observations are those of          *)
(* consecutive samples from a start frame on (so that all, two, one or     *)
(* none lie in the first second); every collected observation has a        *)
(* confidence above 0.3, as extractPoseData guarantees.                    *)
(***************************************************************************)
\* The most hip observations of an input.
MaxObs == 6

\* Hip rows in pixels with a confidence of 0.9, and an outlier at the confidence
\* 0.4 itself, which the filter drops.
ObsChoices ==
    { [y |-> 150, confidence |-> 180], [y |-> 400, confidence |-> 180],
      [y |-> 500, confidence |-> 180], [y |-> 50, confidence |-> 80] }

\* The frame index of the first observation.
StartFrames == {0, 13, 14}

\* Calibration inputs: cm per pixel 1, 1.2, 0.2 (no body height sample) and 0.05.
\* Body heights in pixels.
CalibrationScenarios ==
    { [userHeightCm |-> 100, bodyHeights |-> <<90, 90, 90>>, videoHeight |-> 1000],
      [userHeightCm |-> 120, bodyHeights |-> <<90, 90, 90>>, videoHeight |-> 1000],
      [userHeightCm |-> 140, bodyHeights |-> <<>>, videoHeight |-> 1000],
      [userHeightCm |-> 100, bodyHeights |-> <<1800, 1800, 1800>>, videoHeight |-> 2000] }

\* The run of analyzeJump that collected the given data and left its loop.
CollectedRun(n, f, start, c) ==
    [NewRun(2 * (start + n), c.videoHeight, c.userHeightCm, FALSE) EXCEPT
        !.pc = "calc",
        !.i = start + n,
        !.video.currentTime = IF start + n = 0 THEN 0 ELSE start + n - 1,
        !.hipPositions = [k \in 1..n |-> [time |-> start + k - 1,
                                          y |-> 2 * f[k].y,
                                          confidence |-> f[k].confidence]],
        !.bodyHeights = [k \in 1..Min(n, Len(c.bodyHeights)) |-> 2 * c.bodyHeights[k]]]

InitEstimator ==
    /\ ManualAppInit
    /\ VisionAppInit
    /\ heightIn = 0
    /\ poseAnalyzer = [detector |-> 1, isModelLoaded |-> TRUE]
    /\ \E n \in 0..MaxObs, start \in StartFrames, c \in CalibrationScenarios :
          \E f \in [1..n -> ObsChoices] :
             runs = << CollectedRun(n, f, start, c) >>

NextEstimator ==
    calculateJumpHeightCall(1)

SpecEstimator == InitEstimator /\ [][NextEstimator]_vars

(***************************************************************************)
(* SpecCalibration: PoseAnalyzer.calculateJumpHeight as a function of the  *)
(* body height samples, on a confident hip track: the subject stands with  *)
(* the hips at row 600 and is at row 500 in the last observation.          *)
(***************************************************************************)
\* The most body height samples of an input.
MaxSamples == 5

\* Nose-to-ankle spans in half pixels (720, 810 and 900.5 pixels).
SpanChoices == {1440, 1620, 1801}

\* The hip track: one observation per sample from the start frame on, as many as
\* the most body height samples and one more.
HipTrack(start) ==
    [k \in 1..(MaxSamples + 1) |->
        [time |-> start + k - 1,
         y |-> IF k = MaxSamples + 1 THEN 1000 ELSE 1200,
         confidence |-> 180]]

\* The run of analyzeJump that collected the track and the samples and left its
\* loop.
CalibrationRun(start, samples, videoHeight) ==
    [NewRun(2 * (start + MaxSamples + 1), videoHeight, 180, FALSE) EXCEPT
        !.pc = "calc",
        !.i = start + MaxSamples + 1,
        !.video.currentTime = start + MaxSamples,
        !.hipPositions = HipTrack(start),
        !.bodyHeights = samples]

InitCalibration ==
    /\ ManualAppInit
    /\ VisionAppInit
    /\ heightIn = 0
    /\ poseAnalyzer = [detector |-> 1, isModelLoaded |-> TRUE]
    /\ \E n \in 0..MaxSamples, start \in {0, 14}, videoHeight \in {1000, 2000} :
          \E samples \in [1..n -> SpanChoices] :
             runs = << CalibrationRun(start, samples, videoHeight) >>

NextCalibration ==
    calculateJumpHeightCall(1)

SpecCalibration == InitCalibration /\ [][NextCalibration]_vars

(***************************************************************************)
(* SpecFusion: extractPoseData and the collection of part_000 77-92 as a   *)
(* function of the keypoints of one frame: a call of analyzeJump on a      *)
(* video of one sample is at its estimatePoses call, which resolves with   *)
(* any combination of hip, ankle and nose keypoints.                       *)
(***************************************************************************)
\* The keypoints the detector may give: absent from the output, or at a score
\* below, at and above 0.3.
LeftHipChoices == {Missing, Keypoint(600, 20), Keypoint(600, 30), Keypoint(600, 31),
                   Keypoint(600, 90)}
RightHipChoices == {Missing, Keypoint(621, 30), Keypoint(621, 31), Keypoint(621, 70)}
LeftAnkleChoices == {Missing, Keypoint(960, 20), Keypoint(960, 80)}
RightAnkleChoices == {Missing, Keypoint(971, 30), Keypoint(971, 80)}
NoseChoices == {Missing, Keypoint(150, 30), Keypoint(150, 90)}

FusionDetections ==
    {NoPose} \cup
    { Pose([left_hip |-> lh, right_hip |-> rh, left_ankle |-> la, right_ankle |-> ra,
            nose |-> n]) :
        lh \in LeftHipChoices, rh \in RightHipChoices, la \in LeftAnkleChoices,
        ra \in RightAnkleChoices, n \in NoseChoices }

InitFusion ==
    /\ ManualAppInit
    /\ VisionAppInit
    /\ heightIn = 0
    /\ poseAnalyzer = [detector |-> 1, isModelLoaded |-> TRUE]
    /\ runs = << [seekVideo(NewRun(3, 1000, 180, FALSE), {}) EXCEPT !.pc = "infer"] >>

NextFusion ==
    \E d \in FusionDetections : estimatePosesResolves(1, d)

SpecFusion == InitFusion /\ [][NextFusion]_vars

(***************************************************************************)
(* SpecAnalyze: one call of analyzeJump with a progress callback, as       *)
(* analyzeVideo makes it (app.js 770-772), on a video of any duration up   *)
(* to the bound; then a second call without a callback on the same video,  *)
(* to which the detector gives what it gave the first.                     *)
(***************************************************************************)
\* The most samples of a video.
MaxFrames == 5

\* Durations in thirtieths of a second: 2k + 1 gives k samples.
Durations == {2 * k + 1 : k \in 0..MaxFrames}

\* The subject standing (hips at row 600) and at the peak (hips at row 500), nose
\* to ankles 810 pixels; a blurred frame whose hips fuse to a confidence of 0.4.
StandingPose ==
    Pose([left_hip |-> Keypoint(600, 90), right_hip |-> Keypoint(600, 90),
          left_ankle |-> Keypoint(960, 80), right_ankle |-> Keypoint(960, 80),
          nose |-> Keypoint(150, 90)])
PeakPose ==
    Pose([left_hip |-> Keypoint(500, 90), right_hip |-> Keypoint(500, 90),
          left_ankle |-> Keypoint(860, 80), right_ankle |-> Keypoint(860, 80),
          nose |-> Keypoint(50, 90)])
BlurredPose ==
    Pose([left_hip |-> Keypoint(590, 35), right_hip |-> Keypoint(610, 45),
          left_ankle |-> Keypoint(960, 20), right_ankle |-> Keypoint(960, 20),
          nose |-> Keypoint(150, 25)])

Detections == {StandingPose, PeakPose, NoPose}

InitAnalyze ==
    /\ ManualAppInit
    /\ VisionAppInit
    /\ heightIn = 0
    /\ poseAnalyzer = [detector |-> 0, isModelLoaded |-> FALSE]
    /\ \E d \in Durations :
          runs = << Called(NewRun(d, 1000, 180, TRUE), FALSE) >>

\* A second analyzeJump call on the same video and user height, without a
\* callback, once the first has settled and the model is loaded.
analyzeJumpAgain ==
    /\ Len(runs) = 1
    /\ runs[1].pc = "done"
    /\ poseAnalyzer.isModelLoaded
    /\ runs' = Append(runs,
          Called([NewRun(runs[1].video.duration, runs[1].video.videoHeight,
                         runs[1].userHeightCm, FALSE) EXCEPT !.replay = 1], TRUE))
    /\ UNCHANGED <<manualVars, heightIn, visionApp, visionResult, poseAnalyzer>>

NextAnalyze ==
    \/ \E r \in 1..Len(runs) : createDetectorResolves(r)
    \/ \E r \in 1..Len(runs) : createDetectorRejects(r)
    \/ \E r \in 1..Len(runs) : \E k \in runs[r].seekedPending : onSeeked(r, k)
    \/ \E r \in 1..Len(runs) : seekTimeout(r)
    \/ \E r \in 1..Len(runs) : delayElapsed(r)
    \/ \E r \in 1..Len(runs) : \E d \in Detections : estimatePosesResolves(r, d)
    \/ \E r \in 1..Len(runs) : estimatePosesRejects(r)
    \/ analyzeJumpAgain

SpecAnalyze == InitAnalyze /\ [][NextAnalyze]_vars

\* The scheduling of one call.  A timer that was set fires (the 500 ms fallback of
\* seekVideo, the 50 ms delay), and a call of the detector library settles
\* (createDetector, estimatePoses); nothing makes the browser deliver 'seeked'.
createDetectorSettles(r) == createDetectorResolves(r) \/ createDetectorRejects(r)
estimatePosesSettles(r) ==
    \/ \E d \in Detections : estimatePosesResolves(r, d)
    \/ estimatePosesRejects(r)

(***************************************************************************)
(* SpecSeekFair: one call of analyzeJump on a short video, with the        *)
(* scheduling above as fairness conditions.                                *)
(***************************************************************************)
\* The most samples of a short video.
MaxSeekFrames == 3

InitSeek ==
    /\ ManualAppInit
    /\ VisionAppInit
    /\ heightIn = 0
    /\ poseAnalyzer = [detector |-> 0, isModelLoaded |-> FALSE]
    /\ \E k \in 0..MaxSeekFrames :
          runs = << Called(NewRun(2 * k + 1, 1000, 180, TRUE), FALSE) >>

NextSeek ==
    \/ createDetectorResolves(1)
    \/ createDetectorRejects(1)
    \/ \E k \in runs[1].seekedPending : onSeeked(1, k)
    \/ seekTimeout(1)
    \/ delayElapsed(1)
    \/ \E d \in Detections : estimatePosesResolves(1, d)
    \/ estimatePosesRejects(1)

FairSeek ==
    /\ WF_vars(seekTimeout(1))
    /\ WF_vars(delayElapsed(1))
    /\ WF_vars(createDetectorSettles(1))
    /\ WF_vars(estimatePosesSettles(1))

SpecSeekFair == InitSeek /\ [][NextSeek]_vars /\ FairSeek

(***************************************************************************)
(* SpecApp: the vision application driven through its user interface, the  *)
(* camera, the recorder and the analyses it starts, on videos of up to     *)
(* MaxAppFrames samples.                                                   *)
(***************************************************************************)
InitApp ==
    /\ ManualAppInit
    /\ VisionAppInit
    /\ PoseAnalyzerInit
    /\ heightIn = 0

NextApp ==
    \/ \E entry \in HeightEntries : handleContinue(entry)
    \/ startRecordingFlow
    \/ getUserMediaResolves
    \/ getUserMediaRejects
    \/ previewPlayResolves
    \/ previewPlayRejects
    \/ toggleRecording
    \/ countdownEnds
    \/ autoStopFires
    \/ cancelRecording
    \/ handleRecordingComplete
    \/ handleUploadClick
    \/ \E file \in {"none", "video", "other"} : handleFileSelect(file)
    \/ clickAnalyzeUpload
    \/ resetApp
    \/ \E r \in 1..Len(runs) : \E k \in 0..MaxAppFrames : videoLoadedMetadata(r, 2 * k + 1)
    \/ \E r \in 1..Len(runs) : videoLoadFails(r)
    \/ \E r \in 1..Len(runs) : createDetectorResolves(r)
    \/ \E r \in 1..Len(runs) : createDetectorRejects(r)
    \/ \E r \in 1..Len(runs) : \E k \in runs[r].seekedPending : onSeeked(r, k)
    \/ \E r \in 1..Len(runs) : seekTimeout(r)
    \/ \E r \in 1..Len(runs) : delayElapsed(r)
    \/ \E r \in 1..Len(runs) : \E d \in Detections : estimatePosesResolves(r, d)
    \/ \E r \in 1..Len(runs) : estimatePosesRejects(r)

SpecApp == InitApp /\ [][NextApp]_vars

(***************************************************************************)
(* SpecAttempt: one attempt of the vision application: the user enters a   *)
(* height, picks a file and has it analysed; the camera is not used.       *)
(***************************************************************************)
\* The most samples of the video of the attempt.
MaxAttemptFrames == 6

\* What the detector gives for a frame of the attempt.
AttemptDetections == {StandingPose, PeakPose, BlurredPose}

NextAttempt ==
    \/ \E entry \in HeightEntries : handleContinue(entry)
    \/ handleUploadClick
    \/ \E file \in {"none", "video", "other"} : handleFileSelect(file)
    \/ clickAnalyzeUpload
    \/ \E k \in 0..MaxAttemptFrames : videoLoadedMetadata(1, 2 * k + 1)
    \/ videoLoadFails(1)
    \/ createDetectorResolves(1)
    \/ createDetectorRejects(1)
    \/ \E k \in 0..MaxAttemptFrames :
          /\ Len(runs) = 1
          /\ k \in runs[1].seekedPending
          /\ onSeeked(1, k)
    \/ seekTimeout(1)
    \/ delayElapsed(1)
    \/ \E d \in AttemptDetections : estimatePosesResolves(1, d)
    \/ estimatePosesRejects(1)

SpecAttempt == InitApp /\ [][NextAttempt]_vars

(***************************************************************************)
(* Claims about the manual estimator (SpecManualEngine)                    *)
(***************************************************************************)
\* C1 as stated: for every positive air time t the manual estimator returns
\* heightCm = 490.5 * t^2 without clamping, and 0.3 s gives 44.1 cm, 0.4 s gives
\* 78.48 cm, 0.5 s gives 122.625 cm.  (t in frame steps of 1/30 s: t^2 = a^2 / 900,
\* so heightCm * 9 = 4905 * a^2 in MilliCm.)
C1_AsStated ==
    (manualResult.shown /\ manualResult.airTime > 0) =>
        /\ manualResult.heightCm * 9 = 4905 * manualResult.airTime * manualResult.airTime
        /\ (manualResult.airTime = 9 => manualResult.heightCm = 44100)
        /\ (manualResult.airTime = 12 => manualResult.heightCm = 78480)
        /\ (manualResult.airTime = 15 => manualResult.heightCm = 122625)

\* C1 amended: for every positive air time t the manual estimator returns
\* heightCm = 490.5 * t^2 without lower or upper clamping; 0.3 s gives 44.145 cm,
\* 0.4 s gives 78.48 cm, 0.5 s gives 122.625 cm.
C1_HeightFormula ==
    (manualResult.shown /\ manualResult.airTime > 0) =>
        /\ manualResult.heightCm * 9 = 4905 * manualResult.airTime * manualResult.airTime
        /\ (manualResult.airTime = 9 => manualResult.heightCm = 44145)
        /\ (manualResult.airTime = 12 => manualResult.heightCm = 78480)
        /\ (manualResult.airTime = 15 => manualResult.heightCm = 122625)

\* C1 witness: an air time of 0.5 s was computed and the height shown is above
\* 120 cm, unclamped.
C1_Witness ==
    /\ manualResult.shown
    /\ manualResult.airTime = 15
    /\ manualResult.heightCm = 122625

\* C2 as stated: when the manual estimator is invoked with peakTime <= takeoffTime
\* (air time <= 0) it fails with INVALID_MARK_ORDER and never returns or displays
\* a height: a height is displayed only for a positive air time.
C2_InvalidMarksRejected ==
    manualResult.shown => manualResult.airTime > 0

(***************************************************************************)
(* Claims about the classifier (SpecClassify)                              *)
(***************************************************************************)
\* The category table of the specification, section 6: lower bounds in cm.
CategoryTable ==
    << [from |-> 0, name |-> "beginner"], [from |-> 30, name |-> "average"],
       [from |-> 46, name |-> "good"], [from |-> 56, name |-> "great"],
       [from |-> 66, name |-> "excellent"], [from |-> 76, name |-> "elite"] >>

\* The rows of the table whose interval [from, next from) holds h (MilliCm).
RowsOf(h) ==
    {r \in 1..Len(CategoryTable) :
        /\ CategoryTable[r].from * MilliCm <= h
        /\ (r < Len(CategoryTable) => h < CategoryTable[r + 1].from * MilliCm)}

RankOf(name) == CHOOSE r \in 1..Len(CategoryTable) : CategoryTable[r].name = name

\* C3: getJumpCategory is total and monotonic over the non-negative heights and
\* matches the category table; both copies give the same category.
C3_Classifier ==
    /\ Cardinality(RowsOf(heightIn)) = 1
    /\ manualResult.shown =>
          /\ \E r \in RowsOf(heightIn) : manualResult.category = CategoryTable[r].name
          /\ \A h \in ClassifyHeights :
                h <= heightIn => RankOf(getJumpCategory(h)) <= RankOf(manualResult.category)
    /\ visionResult.shown =>
          /\ \E r \in RowsOf(heightIn) : visionResult.category = CategoryTable[r].name
          /\ \A h \in ClassifyHeights :
                h <= heightIn => RankOf(getJumpCategoryVision(h)) <= RankOf(visionResult.category)
    /\ (manualResult.shown /\ visionResult.shown) =>
          manualResult.category = visionResult.category

\* C3 witness: both applications classified the boundary height 56.0 cm as great.
C3_Witness ==
    /\ heightIn = 56 * MilliCm
    /\ manualResult.shown /\ manualResult.category = "great"
    /\ visionResult.shown /\ visionResult.category = "great"

(***************************************************************************)
(* Claims about PoseAnalyzer.calculateJumpHeight (SpecEstimator)           *)
(***************************************************************************)
\* The number of observations of a run with a confidence above 0.4.
NumConfident(run) ==
    Cardinality({k \in 1..Len(run.hipPositions) : run.hipPositions[k].confidence > 80})

\* The raw height of a run that passed both gates: the value of jumpHeightCm at
\* part_000 251, in cm.
RawOf(run) ==
    rawJumpHeightCm(confidentPositions(run.hipPositions), run.bodyHeights,
                    run.userHeightCm, run.video.videoHeight)

\* t is a / 0.1 rounded to the nearest integer, halves upwards.
IsRoundedTenths(t, a) ==
    /\ 2 * t * a.d <= 20 * a.n + a.d
    /\ 20 * a.n + a.d < 2 * (t + 1) * a.d

\* C4: with fewer than 5 hip observations of confidence above 0.4 the vision
\* estimator fails with INSUFFICIENT_POSE_DATA or LOW_CONFIDENCE and returns no
\* number, whatever the calibration samples, user height and video height are.
C4_FewConfidentFails ==
    \A r \in 1..Len(runs) :
        (runs[r].pc = "done" /\ NumConfident(runs[r]) < 5) =>
            /\ runs[r].outcome.kind = "error"
            /\ runs[r].outcome.error \in {"INSUFFICIENT_POSE_DATA", "LOW_CONFIDENCE"}

\* C4 witness: six observations, four of them confident, three body height
\* samples: the estimator failed with LOW_CONFIDENCE.
C4_Witness ==
    \E r \in 1..Len(runs) :
        /\ runs[r].pc = "done"
        /\ Len(runs[r].hipPositions) = 6
        /\ NumConfident(runs[r]) = 4
        /\ Len(runs[r].bodyHeights) = 3
        /\ runs[r].outcome.error = "LOW_CONFIDENCE"

AdjustedOf(raw) ==
    IF raw.n < 0 THEN Rat(0, 1)
    ELSE IF RatLess(Rat(120, 1), raw) THEN Rat(raw.n, 2 * raw.d)
    ELSE raw

\* C6: the vision estimator fails with JUMP_TOO_SMALL exactly when the height
\* after the negative clamp and the possible halving is below 5 cm; every height
\* it returns is at least 5 cm and is the adjusted height rounded to one decimal.
C6_TooSmallAndRounding ==
    \A r \in 1..Len(runs) :
        runs[r].pc = "done" =>
            LET out == runs[r].outcome
            IN  IF NumConfident(runs[r]) >= 5
                THEN LET adj == AdjustedOf(RawOf(runs[r]))
                     IN  /\ (out.error = "JUMP_TOO_SMALL") <=> RatLess(adj, Rat(5, 1))
                         /\ out.kind = "height" =>
                               /\ out.tenths >= 50
                               /\ IsRoundedTenths(out.tenths, adj)
                ELSE out.error # "JUMP_TOO_SMALL" /\ out.kind # "height"

\* C6 witness: a height of exactly 5 cm was returned as 5.0 cm.
C6_Witness ==
    \E r \in 1..Len(runs) :
        /\ runs[r].pc = "done"
        /\ NumConfident(runs[r]) >= 5
        /\ RatEq(AdjustedOf(RawOf(runs[r])), Rat(5, 1))
        /\ runs[r].outcome = Height(50)

\* A returned height whose raw value is no multiple of 0.1 cm: the rounding acted.
C6_RoundingActs ==
    \E r \in 1..Len(runs) :
        /\ runs[r].pc = "done"
        /\ runs[r].outcome.kind = "height"
        /\ NumConfident(runs[r]) >= 5
        /\ (10 * RawOf(runs[r]).n) % RawOf(runs[r]).d # 0

(***************************************************************************)
(* Claims about one analyzeJump call (SpecAnalyze)                         *)
(***************************************************************************)
\* v is n/d rounded to the nearest integer, halves upwards.
IsRounded(v, n, d) ==
    /\ 2 * v * d <= 2 * n + d
    /\ 2 * n + d < 2 * (v + 1) * d

C8_FailureAlike ==
    /\ Len(runs) = 2
    /\ runs[1].pc = "done" /\ runs[2].pc = "done"
    /\ runs[2].outcome = Failure("DETECTOR_UNAVAILABLE")
    /\ Len(runs[2].detections) = 3

(***************************************************************************)
(* Claims about the scheduling of one call (SpecSeekFair)                  *)
(***************************************************************************)
\* C9: seeking never stalls the pipeline: every seekVideo call resolves, by the
\* 'seeked' event or by the 500 ms fallback, even if 'seeked' never fires; hence,
\* as long as the detector calls settle, the call terminates with a height or a
\* failure, and it has processed all totalSamples frames unless a detector call
\* threw.
C9_SeekNeverStalls ==
    /\ (runs[1].pc = "seek") ~> (runs[1].pc = "delay")
    /\ <>(runs[1].pc = "done" /\ runs[1].outcome.kind \in {"height", "error"})
    /\ [](runs[1].pc = "done" =>
            \/ runs[1].outcome = Failure("DETECTOR_UNAVAILABLE")
            \/ /\ runs[1].i = runs[1].totalFrames
               /\ Len(runs[1].detections) = runs[1].totalFrames)

\* C9 witness: a call over three samples has terminated, all samples processed,
\* and no 'seeked' event of its last two seeks has been delivered.
C9_Witness ==
    /\ runs[1].pc = "done"
    /\ runs[1].totalFrames = 3
    /\ runs[1].i = 3
    /\ runs[1].outcome = Failure("INSUFFICIENT_POSE_DATA")
    /\ runs[1].seekedPending = {1, 2}

(***************************************************************************)
(* Claims about the analyses the application starts (SpecApp)              *)
(***************************************************************************)
\* Call r of analyzeVideo has not settled.
InFlight(r) == runs[r].pc # "done"

\* C10: analysis is single-flight: at most one analysis is in flight on a given
\* video element, and the shared detector never has two estimatePoses calls
\* from different analyses outstanding at once.
C10_SingleFlight ==
    \A a \in 1..Len(runs), b \in 1..Len(runs) :
        (a # b /\ InFlight(a) /\ InFlight(b)) =>
            /\ runs[a].video.element # runs[b].video.element
            /\ ~(runs[a].pc = "infer" /\ runs[b].pc = "infer")

\* The calls of analyzeJump that called createDetector.
DetectorLoads == {r \in 1..Len(runs) : runs[r].createDetectorCalled}

\* A call of createDetector has rejected.
LoadFailed ==
    \E r \in 1..Len(runs) :
        /\ runs[r].pc = "done"
        /\ runs[r].outcome = Failure("DETECTOR_UNAVAILABLE")
        /\ runs[r].detections = <<>>
        /\ runs[r].i = 0

\* C11: the detector is loaded lazily and once: over any sequence of analyzeJump
\* calls, overlapping ones included, createDetector is invoked at most once as
\* long as no load fails.
C11_LoadedOnce ==
    ~LoadFailed => Cardinality(DetectorLoads) <= 1

(***************************************************************************)
(* Claims about one attempt of the vision application (SpecAttempt)        *)
(***************************************************************************)
\* What calculateJumpHeight gives on the frames a call has gathered.
EstimateOf(run) ==
    PoseAnalyzer_calculateJumpHeight(run.hipPositions, run.bodyHeights,
                                     run.userHeightCm, run.video.videoHeight)

\* estimatePoses threw on a frame of the call.
DetectorThrew(run) == \E k \in 1..Len(run.detections) : run.detections[k] = Thrown

\* C12: failures are propagated, not swallowed: if the detector fails to load or
\* throws on a sampled frame, or the estimator raises INSUFFICIENT_POSE_DATA,
\* LOW_CONFIDENCE or JUMP_TOO_SMALL, analyzeJump fails without computing a
\* height from the frames gathered so far, and the application is on the error
\* screen with that failure and has not shown the results screen.
C12_FailuresPropagated ==
    \A r \in 1..Len(runs) :
        runs[r].pc = "done" =>
            LET run == runs[r]
            IN  /\ DetectorThrew(run) => run.outcome = Failure("DETECTOR_UNAVAILABLE")
                /\ run.i < run.totalFrames => run.outcome.kind = "error"
                /\ (run.createDetectorCalled /\ ~poseAnalyzer.isModelLoaded) =>
                      run.outcome = Failure("DETECTOR_UNAVAILABLE")
                /\ (run.video.duration > 0 /\ poseAnalyzer.isModelLoaded
                       /\ run.i = run.totalFrames /\ EstimateOf(run).kind = "error") =>
                      /\ run.outcome = EstimateOf(run)
                      /\ run.outcome.error \in {"INSUFFICIENT_POSE_DATA", "LOW_CONFIDENCE",
                                                "JUMP_TOO_SMALL"}
                /\ run.outcome.kind = "error" =>
                      /\ visionApp.currentScreen = "error"
                      /\ visionApp.errorMessage = run.outcome.error
                      /\ ~visionResult.shown

\* C12 witness: estimatePoses threw on the sixth frame after five frames that
\* give a height; the attempt is on the error screen and no height was shown.
C12_Witness ==
    /\ Len(runs) = 1
    /\ runs[1].pc = "done"
    /\ Len(runs[1].detections) = 6
    /\ runs[1].detections[6] = Thrown
    /\ EstimateOf(runs[1]).kind = "height"
    /\ runs[1].outcome = Failure("DETECTOR_UNAVAILABLE")
    /\ visionApp.currentScreen = "error"
    /\ ~visionResult.shown

\* An attempt has failed with LOW_CONFIDENCE and is on the error screen.
C12_LowConfidenceShown ==
    /\ Len(runs) = 1
    /\ runs[1].pc = "done"
    /\ runs[1].outcome = Failure("LOW_CONFIDENCE")
    /\ visionApp.errorMessage = "LOW_CONFIDENCE"

\* An attempt has succeeded and the results screen shows its height.
C12_HeightShown ==
    /\ Len(runs) = 1
    /\ runs[1].pc = "done"
    /\ runs[1].outcome.kind = "height"
    /\ visionApp.currentScreen = "results"
    /\ visionResult.shown

(***************************************************************************)
(* Claims about the manual application's user interface (SpecManual)       *)
(***************************************************************************)
\* C13: in every state reached by video selection, marking, re-marking and
\* reset, the Calculate button is enabled if and only if both marks are set and
\* peakTime > takeoffTime; a calculation made through the button has an air
\* time above 0, the one of the marks.
C13_CalculateButton ==
    /\ manualApp.videoFile =>
          (~btnCalculate.disabled <=>
              /\ manualApp.takeoffTime # NULL
              /\ manualApp.peakTime # NULL
              /\ manualApp.peakTime > manualApp.takeoffTime)
    /\ manualResult.shown => manualResult.airTime > 0
    /\ manualApp.currentScreen = "results" =>
          /\ manualResult.shown
          /\ manualResult.airTime = manualApp.peakTime - manualApp.takeoffTime
          /\ manualApp.takeoffTime # NULL

\* C13 witness: the takeoff was marked at frame 3 after the peak at frame 2, which
\* disabled the button although both marks are set.
C13_Witness ==
    /\ manualApp.currentScreen = "selector"
    /\ manualApp.takeoffTime = 3
    /\ manualApp.peakTime = 2
    /\ btnCalculate.disabled

\* A calculation through the button is on the results screen.
C13_Calculated ==
    /\ manualApp.currentScreen = "results"
    /\ manualResult.airTime = 2
    /\ ~btnCalculate.disabled

(***************************************************************************)
(* Claims about the two gates of the vision estimator (SpecEstimator)      *)
(***************************************************************************)
\* C14: the two confidence-gate failures are ordered and distinct:
\* INSUFFICIENT_POSE_DATA is raised exactly when fewer than 5 raw hip
\* observations were collected, whatever their confidences, and LOW_CONFIDENCE
\* exactly when there are at least 5 raw observations but fewer than 5 with a
\* confidence strictly above 0.4.
C14_GateOrder ==
    \A r \in 1..Len(runs) :
        runs[r].pc = "done" =>
            LET raw == Len(runs[r].hipPositions)
                out == runs[r].outcome
            IN  /\ (out.error = "INSUFFICIENT_POSE_DATA") <=> (raw < 5)
                /\ (out.error = "LOW_CONFIDENCE") <=> (raw >= 5 /\ NumConfident(runs[r]) < 5)

\* C14 witness: six raw observations, two of them at the confidence 0.4 itself,
\* have failed with LOW_CONFIDENCE.
C14_Witness ==
    \E r \in 1..Len(runs) :
        /\ runs[r].pc = "done"
        /\ Len(runs[r].hipPositions) = 6
        /\ Cardinality({k \in 1..6 : runs[r].hipPositions[k].confidence = 80}) = 2
        /\ runs[r].outcome = Failure("LOW_CONFIDENCE")

\* Four raw observations, none of them confident, have failed with
\* INSUFFICIENT_POSE_DATA.
C14_FirstGateFirst ==
    \E r \in 1..Len(runs) :
        /\ runs[r].pc = "done"
        /\ Len(runs[r].hipPositions) = 4
        /\ NumConfident(runs[r]) = 0
        /\ runs[r].outcome = Failure("INSUFFICIENT_POSE_DATA")

(***************************************************************************)
(* Claims about the order of the frames of one call (SpecAnalyze)          *)
(***************************************************************************)
\* C15: within one run the frames are processed strictly sequentially and in
\* strictly increasing time order: totalSamples = floor(duration * 15) (duration
\* in thirtieths of a second here), sample i targets time i / 15, the detector is
\* invoked exactly once per sampled frame, the seek of a sample starts only when
\* the detector calls of all earlier samples have completed, and the hip
\* observations have strictly increasing times.
C15_SequentialFrames ==
    \A r \in 1..Len(runs) :
        LET run == runs[r]
        IN  /\ 2 * run.totalFrames <= run.video.duration
            /\ run.video.duration < 2 * (run.totalFrames + 1)
            /\ run.i <= run.totalFrames
            /\ run.pc \in {"seek", "delay", "infer"} =>
                  /\ run.i < run.totalFrames
                  /\ run.video.currentTime = run.i
                  /\ Len(run.detections) = run.i
            /\ run.pc = "done" =>
                  IF DetectorThrew(run)
                  THEN /\ Len(run.detections) = run.i + 1
                       /\ \A k \in 1..run.i : run.detections[k] # Thrown
                  ELSE /\ Len(run.detections) = run.i
                       /\ run.i \in {0, run.totalFrames}
            /\ Len(run.hipPositions) <= run.i
            /\ \A k \in 1..Len(run.hipPositions) :
                  /\ run.hipPositions[k].time \in 0..(run.i - 1)
                  /\ k > 1 => run.hipPositions[k - 1].time < run.hipPositions[k].time

\* C15 witness: a call over the five samples of an 11/30 s video has returned with
\* observations of the samples 0, 2 and 4, after five detector calls.
C15_Witness ==
    /\ Len(runs) >= 1
    /\ runs[1].pc = "done"
    /\ runs[1].video.duration = 11
    /\ runs[1].totalFrames = 5
    /\ Len(runs[1].detections) = 5
    /\ Len(runs[1].hipPositions) = 3
    /\ runs[1].hipPositions[1].time = 0
    /\ runs[1].hipPositions[2].time = 2
    /\ runs[1].hipPositions[3].time = 4
    /\ runs[1].video.currentTime = 4

(***************************************************************************)
(* Claims about the calibration (SpecCalibration)                          *)
(***************************************************************************)
\* The k-th smallest of the samples xs (k from 1), by counting.
KthSmallest(xs, k) ==
    CHOOSE v \in {xs[j] : j \in 1..Len(xs)} :
        /\ Cardinality({j \in 1..Len(xs) : xs[j] < v}) < k
        /\ Cardinality({j \in 1..Len(xs) : xs[j] <= v}) >= k

\* What the estimator returns for the data of a run when one pixel is scale cm.
OutcomeAtScale(run, scale) ==
    LET confident == confidentPositions(run.hipPositions)
    IN  finishHeight(sanityAdjust(
            RatMul(RatSub(standingHipY(confident), peakHipY(confident)), scale)))

\* userHeightCm / (span / 0.9), for a span in half pixels.
ScaleOfSpan(run, span) == Rat(run.userHeightCm * 9, 5 * span)

\* C16 as stated: for an even number n >= 4 of body height samples the
\* calibration span is the lower-middle element of the ascending sort (the
\* smaller of the two middle ones).
C16_AsStated ==
    \A r \in 1..Len(runs) :
        LET n == Len(runs[r].bodyHeights)
        IN  (runs[r].pc = "done" /\ n >= 4 /\ n % 2 = 0) =>
                runs[r].outcome =
                    OutcomeAtScale(runs[r],
                        ScaleOfSpan(runs[r], KthSmallest(runs[r].bodyHeights, n \div 2)))

\* C16: for an even number n >= 4 of body height samples the calibration span is
\* the element at index floor(n / 2) (from 0) of the ascending sort, which is the
\* upper-middle element: a single sample, not the mean of the two middle ones.
C16_UpperMiddle ==
    \A r \in 1..Len(runs) :
        LET n == Len(runs[r].bodyHeights)
        IN  (runs[r].pc = "done" /\ n >= 4 /\ n % 2 = 0) =>
                runs[r].outcome =
                    OutcomeAtScale(runs[r],
                        ScaleOfSpan(runs[r], KthSmallest(runs[r].bodyHeights, (n \div 2) + 1)))

\* C16 witness: the samples 810, 720, 720, 810 pixels gave 16.7 cm for 83.33
\* pixels, the scale of 810 pixels; 720 pixels would give 18.8 cm.
C16_Witness ==
    /\ runs[1].pc = "done"
    /\ runs[1].bodyHeights = <<1620, 1440, 1440, 1620>>
    /\ runs[1].hipPositions[1].time = 0
    /\ runs[1].outcome = Height(167)
    /\ OutcomeAtScale(runs[1], ScaleOfSpan(runs[1], 1440)) = Height(188)

\* C17: calibration degrades gracefully: with at least 3 body height samples
\* pixelScale = userHeightCm / (median / 0.9), with 0, 1 or 2 samples pixelScale =
\* userHeightCm / (videoHeight * 0.7) and the samples are ignored; the estimator
\* does not fail for lack of calibration data.
C17_CalibrationFallback ==
    \A r \in 1..Len(runs) :
        runs[r].pc = "done" =>
            LET run == runs[r]
                n == Len(run.bodyHeights)
                scale == IF n >= 3
                         THEN ScaleOfSpan(run, KthSmallest(run.bodyHeights, (n \div 2) + 1))
                         ELSE Rat(run.userHeightCm * 10, run.video.videoHeight * 7)
            IN  /\ run.outcome = OutcomeAtScale(run, scale)
                /\ run.outcome.kind = "height"

\* C17 witness: with two samples of 720 pixels in a video 1000 pixels high, 83.33
\* pixels were returned as 21.4 cm, the fallback scale of 180 / 700 cm per pixel.
C17_Witness ==
    /\ runs[1].pc = "done"
    /\ runs[1].bodyHeights = <<1440, 1440>>
    /\ runs[1].video.videoHeight = 1000
    /\ runs[1].hipPositions[1].time = 0
    /\ runs[1].outcome = Height(214)

(***************************************************************************)
(* Claims about the displacement (SpecEstimator)                           *)
(***************************************************************************)
\* The observations of a run with a confidence above 0.4, and those of them in
\* the first second (before sample 15).
ConfidentOf(run) ==
    {k \in 1..Len(run.hipPositions) : run.hipPositions[k].confidence > 80}
StandingOf(run) == {k \in ConfidentOf(run) : run.hipPositions[k].time < 15}

RECURSIVE SumOfY(_, _)
\* The sum of the hip rows (half pixels) of the observations ks of a run.
SumOfY(run, ks) ==
    IF ks = {} THEN 0
    ELSE LET k == CHOOSE j \in ks : TRUE
         IN  run.hipPositions[k].y + SumOfY(run, ks \ {k})

\* The displacement of the claim, in pixels: standingHipY - peakHipY.
ClaimedDisplacement(run) ==
    LET ys == {run.hipPositions[k].y : k \in ConfidentOf(run)}
        peak == CHOOSE y \in ys : \A z \in ys : y <= z
        highest == CHOOSE y \in ys : \A z \in ys : y >= z
        standing == IF Cardinality(StandingOf(run)) >= 2
                    THEN Rat(SumOfY(run, StandingOf(run)), 2 * Cardinality(StandingOf(run)))
                    ELSE Rat(highest, 2)
    IN  RatSub(standing, Rat(peak, 2))

\* The raw height of the claim, in cm: (standingHipY - peakHipY) * pixelScale.
ClaimedRaw(run) ==
    RatMul(ClaimedDisplacement(run),
           pixelScale(run.bodyHeights, run.userHeightCm, run.video.videoHeight))

\* C18: the raw height is (standingHipY - peakHipY) * pixelScale, where peakHipY
\* is the minimum hipY over the observations with confidence above 0.4 and
\* standingHipY the mean hipY of those of them with time < 1.0 s when there are at
\* least 2, and otherwise their maximum hipY; observations with a confidence of
\* at most 0.4 influence neither value.
C18_RawHeight ==
    \A r \in 1..Len(runs) :
        (runs[r].pc = "done" /\ Cardinality(ConfidentOf(runs[r])) >= 5) =>
            /\ RatEq(RatSub(standingHipY(confidentPositions(runs[r].hipPositions)),
                           peakHipY(confidentPositions(runs[r].hipPositions))),
                     ClaimedDisplacement(runs[r]))
            /\ runs[r].outcome = finishHeight(sanityAdjust(ClaimedRaw(runs[r])))

\* C18 witness: of six observations from sample 14 on only the first lies in the
\* first second, so the baseline is the maximum, row 500; the peak is row 150
\* although the observation at confidence 0.4 is at row 50; at 0.2 cm per pixel
\* the result is 70.0 cm.
C18_Witness ==
    /\ runs[1].pc = "done"
    /\ Len(runs[1].hipPositions) = 6
    /\ runs[1].hipPositions[1].time = 14
    /\ runs[1].hipPositions[1].y = 800
    /\ runs[1].hipPositions[2].y = 1000
    /\ runs[1].hipPositions[3] = [time |-> 16, y |-> 100, confidence |-> 80]
    /\ runs[1].hipPositions[4].y = 300
    /\ runs[1].bodyHeights = <<>>
    /\ runs[1].outcome = Height(700)

\* Two observations in the first second: the baseline is their mean, row 450, the
\* peak row 150, and at 0.2 cm per pixel the result is 60.0 cm.
C18_MeanBaseline ==
    /\ runs[1].pc = "done"
    /\ Len(runs[1].hipPositions) = 5
    /\ runs[1].hipPositions[1].time = 13
    /\ runs[1].hipPositions[1].y = 1000
    /\ runs[1].hipPositions[2].y = 800
    /\ runs[1].hipPositions[3].y = 300
    /\ runs[1].hipPositions[4].y = 1000
    /\ runs[1].hipPositions[5].y = 1000
    /\ runs[1].bodyHeights = <<>>
    /\ runs[1].outcome = Height(600)

(***************************************************************************)
(* Claims about the data taken from one frame (SpecFusion)                 *)
(***************************************************************************)
\* The keypoint is in the detector's output with a score above 0.3.
Exceeds(kp) == kp.present /\ kp.score > 30

\* The frame of the one-sample call has been processed.
FrameProcessed ==
    /\ runs[1].pc = "done"
    /\ runs[1].i = 1
    /\ Len(runs[1].detections) = 1
    /\ runs[1].detections[1].found

\* C19: hip fusion per frame: if both hips have a confidence above 0.3 the
\* observation is the average of their Y and of their confidences; if only one
\* hip exceeds 0.3 that hip alone is used, whatever the state of the other hip
\* keypoint, its absence from the detector output included; if neither exceeds
\* 0.3 the frame yields no observation and is skipped without error.
\* (Rows in half pixels, confidences in two-hundredths.)
C19_HipFusion ==
    FrameProcessed =>
        LET kps == runs[1].detections[1].keypoints
            l == kps.left_hip
            r == kps.right_hip
            obs == runs[1].hipPositions
        IN  IF Exceeds(l) /\ Exceeds(r)
            THEN obs = << [time |-> 0, y |-> l.y + r.y, confidence |-> l.score + r.score] >>
            ELSE IF Exceeds(l)
            THEN obs = << [time |-> 0, y |-> 2 * l.y, confidence |-> 2 * l.score] >>
            ELSE IF Exceeds(r)
            THEN obs = << [time |-> 0, y |-> 2 * r.y, confidence |-> 2 * r.score] >>
            ELSE obs = <<>>

\* C20: body height samples are recorded separately from hip selection: for
\* every sampled frame in which the nose and the ankle midpoint (both ankles
\* averaged, or the single ankle above 0.3) are above threshold, a sample equal
\* to |ankleY - noseY| is recorded, whether or not the frame yields a hip
\* observation; and a frame without such a sample still contributes its hip
\* observation.  (Rows in half pixels.)
C20_BodyHeightSamples ==
    FrameProcessed =>
        LET kps == runs[1].detections[1].keypoints
            la == kps.left_ankle
            ra == kps.right_ankle
            ankleY == IF Exceeds(la) /\ Exceeds(ra) THEN la.y + ra.y
                      ELSE IF Exceeds(la) THEN 2 * la.y
                      ELSE 2 * ra.y
            measured == (Exceeds(la) \/ Exceeds(ra)) /\ Exceeds(kps.nose)
            span == IF ankleY >= 2 * kps.nose.y THEN ankleY - 2 * kps.nose.y
                    ELSE 2 * kps.nose.y - ankleY
        IN  /\ measured => runs[1].bodyHeights = << span >>
            /\ ~measured => runs[1].bodyHeights = <<>>
            /\ (~measured /\ kps.left_hip.present /\ kps.right_hip.present
                   /\ (Exceeds(kps.left_hip) \/ Exceeds(kps.right_hip))) =>
                  Len(runs[1].hipPositions) = 1

(***************************************************************************)
(* Claims about the negative clamp (SpecEstimator)                         *)
(***************************************************************************)
\* The adjustments of part_000 253-262 without the clamp at zero.
AdjustWithoutClamp(h) ==
    IF RatLess(Rat(MaxPlausibleCm, 1), h) THEN Rat(h.n, 2 * h.d) ELSE h

\* C21: in calculateJumpHeight the standing baseline is never smaller than the
\* peak hipY, in the first-second-average branch and in the maximum fallback
\* branch, so displacementPixels >= 0 for every input that passes the
\* confidence gate; with a positive pixel scale the clamp of negative heights
\* never changes a result.
C21_ClampNeverActs ==
    \A r \in 1..Len(runs) :
        (runs[r].pc = "done" /\ Cardinality(ConfidentOf(runs[r])) >= 5) =>
            LET confident == confidentPositions(runs[r].hipPositions)
                scale == pixelScale(runs[r].bodyHeights, runs[r].userHeightCm,
                                    runs[r].video.videoHeight)
                displacementPixels == RatSub(standingHipY(confident), peakHipY(confident))
                jumpHeightCm == RatMul(displacementPixels, scale)
            IN  /\ ~RatLess(standingHipY(confident), peakHipY(confident))
                /\ displacementPixels.n >= 0 /\ displacementPixels.d > 0
                /\ (scale.n > 0 /\ scale.d > 0) =>
                      /\ jumpHeightCm.n >= 0
                      /\ sanityAdjust(jumpHeightCm) = AdjustWithoutClamp(jumpHeightCm)
                      /\ runs[r].outcome = finishHeight(AdjustWithoutClamp(jumpHeightCm))

\* The two standing samples are the highest rows of the whole track: the mean
\* of the first second equals the minimum and the displacement is zero.
C21_Witness ==
    /\ runs[1].pc = "done"
    /\ Len(runs[1].hipPositions) = 5
    /\ runs[1].hipPositions[1] = [time |-> 13, y |-> 300, confidence |-> 180]
    /\ runs[1].hipPositions[2] = [time |-> 14, y |-> 300, confidence |-> 180]
    /\ \A k \in 3..5 : runs[1].hipPositions[k] = [time |-> 12 + k, y |-> 800, confidence |-> 180]
    /\ runs[1].outcome = Failure("JUMP_TOO_SMALL")

\* The fallback branch: one sample in the first second, a jump measured.
C21_FallbackBranch ==
    /\ runs[1].pc = "done"
    /\ Cardinality(ConfidentOf(runs[1])) >= 5
    /\ Cardinality(StandingOf(runs[1])) = 1
    /\ runs[1].outcome.kind = "height"

(***************************************************************************)
(* Claims about late 'seeked' events (SpecAnalyze)                         *)
(***************************************************************************)
\* C22: each seekVideo wait is resolved only by the 'seeked' event caused by its
\* own assignment of currentTime or by its own 500 ms timeout: a late 'seeked'
\* event of an earlier seek that already timed out never resolves a later
\* seek's wait, so the frame drawn for sample i is taken after seek i itself
\* settled or timed out.
\* (A step from the wait to the 50 ms delay either leaves the pending events
\* alone, which is the timeout, or delivers the event of seek i.)
C22_OwnSeekOnly ==
    [][\A r \in 1..Len(runs) :
          (runs[r].pc = "seek" /\ runs'[r].pc = "delay") =>
              \/ runs'[r].seekedPending = runs[r].seekedPending
              \/ /\ runs[r].i \in runs[r].seekedPending
                 /\ runs'[r].seekedPending = runs[r].seekedPending \ {runs[r].i}]_vars

(***************************************************************************)
(* Claims about a cancelled recording (SpecApp)                            *)
(***************************************************************************)
\* C23: after cancelRecording, during the countdown or while the recorder is
\* recording, the app returns to the instructions screen and stays there until
\* the next user action: no analysis of the cancelled recording is started
\* (analyzeVideo is not invoked and the analyzing, results or error screen is
\* not shown as a consequence of the cancelled recording).
\* (The delivery of the recorder's 'stop' event on the instructions screen is
\* no user action: it leaves the screen and the analyses alone.)
C23_CancelDiscardsRecording ==
    [][(/\ visionApp.currentScreen = "instructions"
        /\ visionApp.stopEvents > 0
        /\ visionApp'.stopEvents < visionApp.stopEvents) =>
           /\ visionApp'.currentScreen = "instructions"
           /\ runs' = runs]_vars

====
